---- MODULE Spec2Model ----
(***************************************************************************)
(* Model of src/dys.py: the word splitter, the tokenizer, the paragraph    *)
(* segmenter, the preview and PDF text shaping, and the Streamlit script   *)
(* (session state, sidebar, download button, main interface) as a state    *)
(* machine whose steps are script reruns.                                  *)
(*                                                                         *)
(* Strings are sequences of one-character strings.  An optional value is   *)
(* <<>> (Python None) or <<v>>.                                            *)
(***************************************************************************)
EXTENDS Integers, Sequences, FiniteSets, TLC

VARIABLES
    \* ---- text pipeline (pure functions applied to a drawn text) ----
    t_text,        \* the text handed to the pipeline
    t_settings,    \* the settings snapshot handed to the renderers
    t_words,       \* <<>> or <<words>>: the re.findall result of the preview path
    t_preview,     \* <<>> or <<process_text_for_preview(t_text)>>
    t_markup,      \* <<>> or <<preview markup pieces>>
    t_paragraphs,  \* <<>> or <<paragraphs>>: text.split("\n\n") of the PDF path
    t_pdf_words,   \* <<>> or <<per-paragraph re.findall results>>
    t_pdf,         \* <<>> or <<per-paragraph processed_words>>
    \* ---- Streamlit session / script run ----
    uploaded,      \* file_uploader value: <<>> or <<file>>
    widgets,       \* sidebar widget values (theme, text size)
    settings,      \* st.session_state.settings
    pdf_bytes,     \* st.session_state.pdf_bytes: <<>> or <<pdf>>
    error_message, \* st.session_state.error_message
    registered,    \* pdfmetrics font registry (process-global)
    button,        \* what st.download_button rendered in the last run
    preview,       \* preview markup rendered in the last run: <<>> or <<m>>
    error_shown,   \* argument of st.error in the last run, or NoError
    warning_shown, \* st.warning issued by configure_fonts_app in the last run
    pdf_call       \* outcome of the create_pdf_document call of the last run

textVars == <<t_text, t_settings, t_words, t_preview, t_markup, t_paragraphs, t_pdf_words, t_pdf>>
appVars == <<uploaded, widgets, settings, pdf_bytes, error_message, registered,
             button, preview, error_shown, warning_shown, pdf_call>>
vars == <<t_text, t_settings, t_words, t_preview, t_markup, t_paragraphs, t_pdf_words, t_pdf,
          uploaded, widgets, settings, pdf_bytes, error_message, registered,
          button, preview, error_shown, warning_shown, pdf_call>>

----------------------------------------------------------------------------
\* Bounds and input alphabets

MaxLen == 4

WordChars == {"a", "b"}
PunctChars == {"(", ")"}
SpaceChars == {" ", "\n"}
Chars == WordChars \cup PunctChars \cup SpaceChars

RECURSIVE SeqsUpTo(_, _)
SeqsUpTo(S, n) ==
    IF n = 0 THEN {<<>>}
    ELSE LET shorter == SeqsUpTo(S, n - 1)
         IN shorter \cup {Append(s, c) : s \in {x \in shorter : Len(x) = n - 1}, c \in S}

Texts == SeqsUpTo(Chars, MaxLen)

None == <<>>
Some(x) == <<x>>
NoError == "None"

----------------------------------------------------------------------------
\* Character classes of Python's re module (str patterns)

\* \s
IsSpace(c) == c \in SpaceChars
\* \w
IsWordChar(c) == c \in WordChars

\* str.strip() == ''
IsBlank(s) == \A i \in 1..Len(s) : IsSpace(s[i])

RECURSIVE Concat(_)
Concat(ss) == IF ss = <<>> THEN <<>> ELSE Head(ss) \o Concat(Tail(ss))

----------------------------------------------------------------------------
\* re.sub(r'^\W+|\W+$', '', word)

\* length of the match of ^\W+ at position 0
LeadingNonWord(word) ==
    IF \E i \in 1..Len(word) : IsWordChar(word[i])
    THEN (CHOOSE i \in 1..Len(word) :
             IsWordChar(word[i]) /\ \A j \in 1..(i-1) : ~IsWordChar(word[j])) - 1
    ELSE Len(word)

\* length of the match of \W+$ in what follows the leading match
TrailingNonWord(word) ==
    IF \E i \in 1..Len(word) : IsWordChar(word[i])
    THEN Len(word) - (CHOOSE i \in 1..Len(word) :
             IsWordChar(word[i]) /\ \A j \in (i+1)..Len(word) : ~IsWordChar(word[j]))
    ELSE 0

StripNonWord(word) ==
    SubSeq(word, LeadingNonWord(word) + 1, Len(word) - TrailingNonWord(word))

\* lines 49-54, given clean_word
SplitWord(word, clean_word, split) ==
    IF clean_word = <<>> THEN <<word, <<>>>>
    ELSE <<SubSeq(clean_word, 1, split),
           SubSeq(clean_word, split + 1, Len(clean_word))
              \o SubSeq(word, Len(clean_word) + 1, Len(word))>>

\* Variant: an empty core gives ("", word)
SplitWord_swapped(word, clean_word, split) ==
    IF clean_word = <<>> THEN <<<<>>, word>>
    ELSE <<SubSeq(clean_word, 1, split),
           SubSeq(clean_word, split + 1, Len(clean_word))
              \o SubSeq(word, Len(clean_word) + 1, Len(word))>>

\* split = (len(clean_word) + 1) // 2
SplitIndex(clean_word) == (Len(clean_word) + 1) \div 2

\* Variants of process_word_app: the split index rounded down, and the
\* empty-core result swapped
SplitWithFloor(word, clean_word) == SplitWord(word, clean_word, Len(clean_word) \div 2)
SplitSwapped(word, clean_word) == SplitWord_swapped(word, clean_word, SplitIndex(clean_word))
process_word_app_floor(word) == SplitWithFloor(word, StripNonWord(word))
process_word_app_swapped(word) == SplitSwapped(word, StripNonWord(word))

SplitClean(word, clean_word) == SplitWord(word, clean_word, SplitIndex(clean_word))

\* process_word_app(word) -> (bold, normal)
process_word_app(word) == SplitClean(word, StripNonWord(word))

----------------------------------------------------------------------------
\* re.findall(r'\S+|\s+', text)

\* end of the maximal run starting at i of characters of the class of s[i]
RECURSIVE RunEnd(_, _)
RunEnd(s, i) ==
    IF i < Len(s) /\ IsSpace(s[i + 1]) = IsSpace(s[i]) THEN RunEnd(s, i + 1) ELSE i

\* the matches from position i on, the first one ending at j
RECURSIVE MatchesFrom(_, _, _)
MatchesFrom(s, i, j) ==
    IF i > Len(s) THEN <<>>
    ELSE <<SubSeq(s, i, j)>> \o MatchesFrom(s, j + 1, RunEnd(s, j + 1))

\* Variant: the pattern r'\S+' alone (whitespace runs are skipped)
RECURSIVE WordMatchesFrom(_, _, _)
WordMatchesFrom(s, i, j) ==
    IF i > Len(s) THEN <<>>
    ELSE (IF IsSpace(s[i]) THEN <<>> ELSE <<SubSeq(s, i, j)>>)
            \o WordMatchesFrom(s, j + 1, RunEnd(s, j + 1))

FindAll_words_only(s) == WordMatchesFrom(s, 1, RunEnd(s, 1))

FindAll(s) == MatchesFrom(s, 1, RunEnd(s, 1))

----------------------------------------------------------------------------
\* text.split("\n\n")

HasSepAt(s, i) == i + 1 <= Len(s) /\ s[i] = "\n" /\ s[i + 1] = "\n"

FirstSep(s) ==
    IF \E i \in 1..Len(s) : HasSepAt(s, i)
    THEN CHOOSE i \in 1..Len(s) : HasSepAt(s, i) /\ \A j \in 1..(i-1) : ~HasSepAt(s, j)
    ELSE 0

\* the pieces of s given the position of its first separator
RECURSIVE SplitAt(_, _)
SplitAt(s, i) ==
    IF i = 0 THEN <<s>>
    ELSE <<SubSeq(s, 1, i - 1)>>
            \o SplitAt(SubSeq(s, i + 2, Len(s)), FirstSep(SubSeq(s, i + 2, Len(s))))

\* Variant: the separator is taken to be three characters long
RECURSIVE SplitAt_wide(_, _)
SplitAt_wide(s, i) ==
    IF i = 0 THEN <<s>>
    ELSE <<SubSeq(s, 1, i - 1)>>
            \o SplitAt_wide(SubSeq(s, i + 3, Len(s)), FirstSep(SubSeq(s, i + 3, Len(s))))

SplitParagraphs_wide(s) == SplitAt_wide(s, FirstSep(s))

SplitParagraphs(s) == SplitAt(s, FirstSep(s))

\* "\n\n".join(parts)
RECURSIVE JoinParagraphs(_)
JoinParagraphs(parts) ==
    IF parts = <<>> THEN <<>>
    ELSE IF Len(parts) = 1 THEN parts[1]
    ELSE parts[1] \o <<"\n", "\n">> \o JoinParagraphs(Tail(parts))

----------------------------------------------------------------------------
\* Settings

FONT_OPTIONS == <<"Arial">>

\* COLOR_FILTERS[theme] = (text_color, bg_color)
COLOR_FILTERS ==
    [Default    |-> <<"#000000", "#FFFFFF">>,
     Cream      |-> <<"#000000", "#FFFFEA">>,
     SoftBlue   |-> <<"#003366", "#E6F0FF">>,
     DarkMode   |-> <<"#FFFFFF", "#1A1A1A">>]

Themes == DOMAIN COLOR_FILTERS

\* values the text-size slider (8..24) is moved to
TextSizes == {12, 24}

\* st.session_state.settings at session start; line_spacing is kept in
\* quarters (the slider's step is 0.25), so 2.0 is 8
DefaultSettings ==
    [text_size |-> 12, line_spacing |-> 8, char_spacing |-> 1,
     bg_color |-> "#FFFFFF", text_color |-> "#000000", current_font |-> "Arial"]

DefaultWidgets == [font |-> FONT_OPTIONS[1], theme |-> "Default", text_size |-> 12]

\* f"{font}-Bold"
BoldFontName(font) == IF font = "Arial" THEN "Arial-Bold" ELSE "Unknown-Bold"

----------------------------------------------------------------------------
\* Preview path

\* the loop of process_text_for_preview over words
PreviewPairs(words) ==
    [i \in 1..Len(words) |->
        IF IsBlank(words[i]) THEN <<<<>>, words[i]>> ELSE process_word_app(words[i])]

\* Variant: a whitespace token is put in the bold slot
PreviewPairs_ws_bold(words) ==
    [i \in 1..Len(words) |->
        IF IsBlank(words[i]) THEN <<words[i], <<>>>> ELSE process_word_app(words[i])]

process_text_for_preview_ws_bold(text) == PreviewPairs_ws_bold(FindAll(text))

process_text_for_preview(text) == PreviewPairs(FindAll(text))

\* the style attribute of the span of the preview loop
SpanStyle(s) ==
    [font_family |-> s.current_font, font_size |-> s.text_size,
     line_height |-> s.line_spacing, letter_spacing |-> s.char_spacing,
     color |-> s.text_color]

\* preview_content: one <span style=...><b>{bold}</b>{normal}</span> per pair
PreviewContent(processed_preview, s) ==
    [i \in 1..Len(processed_preview) |->
        [tag |-> "span", style |-> SpanStyle(s),
         b |-> processed_preview[i][1], rest |-> processed_preview[i][2]]]

\* the <div style="background:..."> wrapping the joined spans
PreviewMarkup(text, s) ==
    [background |-> s.bg_color,
     content |-> PreviewContent(process_text_for_preview(text), s)]

----------------------------------------------------------------------------
\* PDF path

\* <font name="{font}-Bold">{bold}</font>{normal}
FontRun(pair, font) == [tag |-> "font", name |-> BoldFontName(font), b |-> pair[1], rest |-> pair[2]]

\* the loop over words of one paragraph: whitespace verbatim, a word as a font run
ProcessedTokens(words, s) ==
    [i \in 1..Len(words) |->
        IF IsBlank(words[i]) THEN [tag |-> "text", text |-> words[i]]
        ELSE FontRun(process_word_app(words[i]), s.current_font)]

\* processed_words of one paragraph
ProcessedWords(para_text, s) == ProcessedTokens(FindAll(para_text), s)

ParagraphsContent(paragraphs, s) ==
    [i \in 1..Len(paragraphs) |-> ProcessedWords(paragraphs[i], s)]

\* content: Paragraph(paragraph_content, style) then Spacer(1, 6) per paragraph
PdfContent(text, s) == ParagraphsContent(SplitParagraphs(text), s)

\* ParagraphStyle('MainStyle', ...); leading in quarter points, spaceBefore
\* in half points
MainStyle(s) ==
    [fontName |-> s.current_font, fontSize |-> s.text_size,
     leading |-> s.text_size * s.line_spacing,
     textColor |-> s.text_color, backColor |-> s.bg_color,
     splitLongWords |-> FALSE, spaceBefore |-> s.text_size,
     charSpace |-> s.char_spacing]

\* font names a document of content c refers to
FontsOf(c, s) ==
    {s.current_font} \cup
    UNION {{c[p][i].name : i \in {j \in 1..Len(c[p]) : c[p][j].tag = "font"}} :
              p \in 1..Len(c)}

FontsUsed(text, s) == FontsOf(PdfContent(text, s), s)

\* What the layout library does with the document is the environment's:
\*   env.fault     stage at which it rejects the content ("none" if it does not)
\*   env.fontStage stage at which a font that is not registered is noticed
LibraryEnvs ==
    {[fault |-> "none", fontStage |-> "paragraph"],
     [fault |-> "none", fontStage |-> "build"],
     [fault |-> "paragraph", fontStage |-> "paragraph"],
     [fault |-> "build", fontStage |-> "build"]}

\* The outcome of the call for content c.
\* Paragraph(...) at line 102 is outside the try block; doc.build is inside.
BuildDocument(c, fonts, s, regs, env) ==
    IF env.fault = "paragraph" \/ (~(fonts \subseteq regs) /\ env.fontStage = "paragraph")
    THEN [exc |-> "LibraryError", value |-> None]
    ELSE IF env.fault = "build" \/ (~(fonts \subseteq regs) /\ env.fontStage = "build")
    THEN [exc |-> "RuntimeError", value |-> None]
    ELSE [exc |-> "none",
          value |-> Some([style |-> MainStyle(s), content |-> c, background |-> s.bg_color])]

ContentOutcome(c, s, regs, env) == BuildDocument(c, FontsOf(c, s), s, regs, env)

\* create_pdf_document(text, settings)
create_pdf_document(text, s, regs, env) == ContentOutcome(PdfContent(text, s), s, regs, env)

----------------------------------------------------------------------------
\* Uploaded files and read_document_file

MIME_DOCX == "application/vnd.openxmlformats-officedocument.wordprocessingml.document"
MIME_PDF == "application/pdf"
MIME_OTHER == "text/plain"

\* block texts (DOCX paragraphs, PDF pages) of the documents that get uploaded
SampleBlocks ==
    { << <<" ">> >>,
      << <<>>, <<"\n">> >>,
      << <<"a", "b">> >>,
      << <<"(", "a", ")">>, <<"b", " ", "a">> >> }

\* a file of a type that is not read and a file that cannot be read have no
\* blocks the script ever sees
Files ==
    {[type |-> MIME_OTHER, readable |-> TRUE, blocks |-> <<>>]}
    \cup [type : {MIME_DOCX, MIME_PDF}, readable : {FALSE}, blocks : {<<>>}]
    \cup [type : {MIME_DOCX, MIME_PDF}, readable : {TRUE}, blocks : SampleBlocks]

ErrUnsupported == "Unsupported file type. Please upload DOCX or PDF."
ErrReading == "Error reading file: <cause>"
ErrNoText == "The document contains no text."
ErrRender == "Failed to generate PDF: <cause>"
ErrLibrary == "<cause>"

\* read_document_file(uploaded_file) -> (text, error)
read_document_file(f) ==
    IF f.type \in {MIME_DOCX, MIME_PDF}
    THEN IF f.readable
         THEN [text |-> Some(JoinParagraphs(f.blocks)), error |-> None]
         ELSE [text |-> None, error |-> Some(ErrReading)]
    ELSE [text |-> None, error |-> Some(ErrUnsupported)]

----------------------------------------------------------------------------
\* The script, top to bottom

\* configure_fonts_app(): the registry after the two registerFont calls;
\* outcome says which call, if any, raises
FontOutcomes == {"ok", "regular_fails", "bold_fails"}

configure_fonts_app(regs, outcome) ==
    IF outcome = "ok" THEN [registered |-> regs \cup {"Arial", "Arial-Bold"}, warning |-> FALSE]
    ELSE IF outcome = "bold_fails" THEN [registered |-> regs \cup {"Arial"}, warning |-> TRUE]
    ELSE [registered |-> regs, warning |-> TRUE]

\* the sidebar's writes to st.session_state.settings
SidebarSettings(s, w) ==
    [s EXCEPT !.current_font = w.font,
              !.text_color = COLOR_FILTERS[w.theme][1],
              !.bg_color = COLOR_FILTERS[w.theme][2],
              !.text_size = w.text_size]

\* st.download_button(data=..., disabled=...); b'' is the empty value
download_button(pdf) ==
    [data |-> IF pdf # None THEN pdf ELSE None, disabled |-> (pdf = None)]

NotCalled == [called |-> FALSE, exc |-> "none", fault |-> "none", fonts |-> {}]

\* else branch (lines 207-210): pdf_bytes reset, a left-over error shown again
NoUpload(err) ==
    [pdf_bytes |-> None, error_message |-> err, preview |-> None,
     error_shown |-> err, pdf_call |-> NotCalled]

\* the error branches (lines 171-176, 204-205); pdf is what pdf_bytes is set to
Aborted(msg, pdf) ==
    [pdf_bytes |-> pdf, error_message |-> msg, preview |-> None,
     error_shown |-> msg, pdf_call |-> NotCalled]

\* error_message after the try/except around create_pdf_document
RenderMessage(exc) ==
    IF exc = "none" THEN NoError
    ELSE IF exc = "RuntimeError" THEN ErrRender ELSE ErrLibrary

\* lines 178-205 given the outcome of create_pdf_document and the preview markup
Rendered(out, markup, fonts, env) ==
    [pdf_bytes |-> out.value, error_message |-> RenderMessage(out.exc),
     preview |-> Some(markup), error_shown |-> RenderMessage(out.exc),
     pdf_call |-> [called |-> TRUE, exc |-> out.exc, fault |-> env.fault, fonts |-> fonts]]

\* the else branch of lines 177-201
Convert(text, s, regs, env) ==
    Rendered(create_pdf_document(text, s, regs, env), PreviewMarkup(text, s),
             FontsUsed(text, s), env)

\* lines 171-201 given the result r of read_document_file
AfterRead(r, s, regs, env) ==
    IF r.error # None THEN Aborted(r.error[1], None)
    ELSE IF IsBlank(r.text[1]) THEN Aborted(ErrNoText, None)
    ELSE Convert(r.text[1], s, regs, env)

\* Variant: the "no text" branch does not reset pdf_bytes
AfterRead_keep_pdf(r, s, pdf, regs, env) ==
    IF r.error # None THEN Aborted(r.error[1], None)
    ELSE IF IsBlank(r.text[1]) THEN Aborted(ErrNoText, pdf)
    ELSE Convert(r.text[1], s, regs, env)

MainInterface_keep_pdf(upl, s, pdf, err, regs, env) ==
    IF upl = None THEN NoUpload(err)
    ELSE AfterRead_keep_pdf(read_document_file(upl[1]), s, pdf, regs, env)

\* Main interface (lines 165-210): the new session values and what the run
\* displayed.  pdf and err are pdf_bytes and error_message on entry.
MainInterface(upl, s, pdf, err, regs, env) ==
    IF upl = None THEN NoUpload(err)
    ELSE AfterRead(read_document_file(upl[1]), s, regs, env)

\* the script after configure_fonts_app, with the registry it left
AfterFonts(upl, s, pdf0, err0, fonts, env) ==
    [fonts |-> fonts, settings |-> s, button |-> download_button(pdf0),
     main |-> MainInterface(upl, s, pdf0, err0, fonts.registered, env)]

\* One run of the script with the widget values upl and w: the session
\* values it leaves and what it displayed
ScriptRun(upl, w, s0, pdf0, err0, regs0, outcome, env) ==
    AfterFonts(upl, SidebarSettings(s0, w), pdf0, err0,
               configure_fonts_app(regs0, outcome), env)

RunScript(upl, w, outcome, env) ==
    \E run \in {ScriptRun(upl, w, settings, pdf_bytes, error_message, registered,
                          outcome, env)} :
       /\ uploaded' = upl
       /\ widgets' = w
       /\ registered' = run.fonts.registered
       /\ warning_shown' = run.fonts.warning
       /\ settings' = run.settings
       /\ button' = run.button
       /\ pdf_bytes' = run.main.pdf_bytes
       /\ error_message' = run.main.error_message
       /\ preview' = run.main.preview
       /\ error_shown' = run.main.error_shown
       /\ pdf_call' = run.main.pdf_call

----------------------------------------------------------------------------
\* Session: the state after the first run of a new session (nothing uploaded)

TextIdle ==
    /\ t_text = <<>>
    /\ t_settings = DefaultSettings
    /\ t_words = None
    /\ t_preview = None
    /\ t_markup = None
    /\ t_paragraphs = None
    /\ t_pdf_words = None
    /\ t_pdf = None

Init ==
    /\ TextIdle
    /\ \E outcome \in FontOutcomes :
          /\ registered = configure_fonts_app({}, outcome).registered
          /\ warning_shown = configure_fonts_app({}, outcome).warning
    /\ uploaded = None
    /\ widgets = DefaultWidgets
    /\ settings = SidebarSettings(DefaultSettings, DefaultWidgets)
    /\ button = download_button(None)
    /\ pdf_bytes = None
    /\ error_message = NoError
    /\ preview = None
    /\ error_shown = NoError
    /\ pdf_call = NotCalled

\* the user uploads or replaces the file
UploadFile ==
    \E f \in Files, outcome \in FontOutcomes, env \in LibraryEnvs :
        /\ uploaded # Some(f)
        /\ RunScript(Some(f), widgets, outcome, env)
        /\ UNCHANGED textVars

\* the user removes the file
RemoveFile ==
    \E outcome \in FontOutcomes, env \in LibraryEnvs :
        /\ uploaded # None
        /\ RunScript(None, widgets, outcome, env)
        /\ UNCHANGED textVars

\* the user picks another colour theme
ChangeTheme ==
    \E th \in Themes, outcome \in FontOutcomes, env \in LibraryEnvs :
        /\ th # widgets.theme
        /\ RunScript(uploaded, [widgets EXCEPT !.theme = th], outcome, env)
        /\ UNCHANGED textVars

\* the user moves the text-size slider
ChangeTextSize ==
    \E sz \in TextSizes, outcome \in FontOutcomes, env \in LibraryEnvs :
        /\ sz # widgets.text_size
        /\ RunScript(uploaded, [widgets EXCEPT !.text_size = sz], outcome, env)
        /\ UNCHANGED textVars

\* the user clicks the enabled download button: the script reruns unchanged
ClickDownload ==
    \E outcome \in FontOutcomes, env \in LibraryEnvs :
        /\ ~button.disabled
        /\ RunScript(uploaded, widgets, outcome, env)
        /\ UNCHANGED textVars

Next == UploadFile \/ RemoveFile \/ ChangeTheme \/ ChangeTextSize \/ ClickDownload

Spec == Init /\ [][Next]_vars

----------------------------------------------------------------------------
\* Text pipeline: the pure functions applied to a text and a settings snapshot

SettingsSpace ==
    {SidebarSettings(DefaultSettings, [font |-> FONT_OPTIONS[1], theme |-> th, text_size |-> sz]) :
        th \in Themes, sz \in TextSizes}

AppIdle ==
    /\ uploaded = None
    /\ widgets = DefaultWidgets
    /\ settings = DefaultSettings
    /\ pdf_bytes = None
    /\ error_message = NoError
    /\ registered = {"Arial", "Arial-Bold"}
    /\ button = download_button(None)
    /\ preview = None
    /\ error_shown = NoError
    /\ warning_shown = FALSE
    /\ pdf_call = NotCalled

InitText ==
    /\ AppIdle
    /\ t_text \in Texts
    /\ t_settings \in SettingsSpace
    /\ t_words = None
    /\ t_preview = None
    /\ t_markup = None
    /\ t_paragraphs = None
    /\ t_pdf_words = None
    /\ t_pdf = None

\* process_text_for_preview and the preview loop
GeneratePreview ==
    /\ t_preview = None
    /\ t_words' = Some(FindAll(t_text))
    /\ t_preview' = Some(process_text_for_preview(t_text))
    /\ t_markup' = Some(PreviewMarkup(t_text, t_settings).content)
    /\ UNCHANGED <<t_text, t_settings, t_paragraphs, t_pdf_words, t_pdf>>
    /\ UNCHANGED appVars

\* the paragraph loop of create_pdf_document
GeneratePdf ==
    /\ t_pdf = None
    /\ t_paragraphs' = Some(SplitParagraphs(t_text))
    /\ t_pdf_words' = Some([p \in 1..Len(SplitParagraphs(t_text)) |->
                               FindAll(SplitParagraphs(t_text)[p])])
    /\ t_pdf' = Some(PdfContent(t_text, t_settings))
    /\ UNCHANGED <<t_text, t_settings, t_words, t_preview, t_markup>>
    /\ UNCHANGED appVars

NextText == GeneratePreview \/ GeneratePdf

SpecText == InitText /\ [][NextText]_vars

----------------------------------------------------------------------------
\* Vocabulary of the properties, stated on a word without the code's operators

HasCore(w) == \E i \in 1..Len(w) : IsWordChar(w[i])
FirstWordChar(w) == CHOOSE i \in 1..Len(w) :
                       IsWordChar(w[i]) /\ \A j \in 1..Len(w) : IsWordChar(w[j]) => i <= j
LastWordChar(w) == CHOOSE i \in 1..Len(w) :
                      IsWordChar(w[i]) /\ \A j \in 1..Len(w) : IsWordChar(w[j]) => j <= i
CoreOf(w) == SubSeq(w, FirstWordChar(w), LastWordChar(w))
LeadingOf(w) == SubSeq(w, 1, FirstWordChar(w) - 1)
TrailingOf(w) == SubSeq(w, LastWordChar(w) + 1, Len(w))

\* indices of the word tokens of the preview pass
WordIndices == {i \in 1..Len(t_words[1]) : ~IsBlank(t_words[1][i])}
SpaceIndices == {i \in 1..Len(t_words[1]) : IsBlank(t_words[1][i])}

BoldOf(i) == t_preview[1][i][1]
NormalOf(i) == t_preview[1][i][2]

\* C1: a word with a non-empty core gets the normal part core[ceil(len/2):]
\* followed by exactly the stripped trailing characters, and the stripped
\* leading characters are absent from the output, with or without leading
\* punctuation.
C1_NormalIsRestPlusTrailing ==
    t_preview # None =>
        \A i \in WordIndices :
            LET w == t_words[1][i]
                c == CoreOf(w)
            IN HasCore(w) =>
                 /\ NormalOf(i) = SubSeq(c, Len(BoldOf(i)) + 1, Len(c)) \o TrailingOf(w)
                 /\ BoldOf(i) \o NormalOf(i) = c \o TrailingOf(w)

\* C8: for a word with a non-empty core c the bold part has length
\* ceil(len(c)/2) and is a prefix of c, so the first character of c is bold.
C8_BoldIsCeilHalfPrefix ==
    t_preview # None =>
        \A i \in WordIndices :
            LET w == t_words[1][i]
                c == CoreOf(w)
                n == Len(BoldOf(i))
            IN HasCore(w) =>
                 /\ 2 * n \in {Len(c), Len(c) + 1}
                 /\ n >= 1
                 /\ BoldOf(i) = SubSeq(c, 1, n)
                 /\ BoldOf(i)[1] = c[1]

\* a processed word with leading punctuation and a core of odd length 3
C8_Witness ==
    /\ t_preview # None
    /\ \E i \in WordIndices :
          /\ HasCore(t_words[1][i])
          /\ Len(CoreOf(t_words[1][i])) = 3
          /\ Len(LeadingOf(t_words[1][i])) = 1
          /\ Len(BoldOf(i)) = 2

\* C9: a word token with an empty core comes back as (w, ""): the whole
\* token is the bold part and the normal part is empty.
C9_EmptyCoreAllBold ==
    t_preview # None =>
        \A i \in WordIndices :
            ~HasCore(t_words[1][i]) =>
                /\ BoldOf(i) = t_words[1][i]
                /\ NormalOf(i) = <<>>

\* a processed punctuation-only token of two or more characters
C9_Witness ==
    /\ t_preview # None
    /\ \E i \in WordIndices :
          /\ ~HasCore(t_words[1][i])
          /\ Len(t_words[1][i]) >= 2
          /\ BoldOf(i) = t_words[1][i]

IsRun(tok) == tok # <<>> /\ \A k \in 1..Len(tok) : IsSpace(tok[k]) = IsSpace(tok[1])

TokensCover(tokens, text) ==
    /\ Concat(tokens) = text
    /\ \A i \in 1..Len(tokens) : IsRun(tokens[i])
    /\ \A i \in 1..(Len(tokens) - 1) : IsSpace(tokens[i][1]) # IsSpace(tokens[i + 1][1])

\* C7: the tokens of re.findall(r'\S+|\s+', t), in order, concatenate to t
\* exactly; each token is a non-empty run of one class, and word and
\* whitespace tokens alternate.  The same holds per paragraph on the PDF path.
C7_TokensReconstructText ==
    /\ t_words # None => TokensCover(t_words[1], t_text)
    /\ t_pdf_words # None =>
          \A p \in 1..Len(t_paragraphs[1]) :
              TokensCover(t_pdf_words[1][p], t_paragraphs[1][p])

\* a tokenized text of three or more tokens starting with whitespace, and a
\* tokenized second paragraph
C7_Witness ==
    /\ t_words # None
    /\ Len(t_words[1]) >= 3
    /\ IsBlank(t_words[1][1])
    /\ t_pdf_words # None
    /\ Len(t_paragraphs[1]) >= 2
    /\ t_pdf_words[1][2] # <<>>

RECURSIVE PreviewPairsFrom(_)
PreviewPairsFrom(i) ==
    IF i > Len(t_words[1]) THEN <<>>
    ELSE (IF IsBlank(t_words[1][i]) THEN <<>> ELSE <<t_preview[1][i]>>)
            \o PreviewPairsFrom(i + 1)

RECURSIVE FontRuns(_)
FontRuns(items) ==
    IF items = <<>> THEN <<>>
    ELSE (IF Head(items).tag = "font" THEN << <<Head(items).b, Head(items).rest>> >> ELSE <<>>)
            \o FontRuns(Tail(items))

RECURSIVE PdfPairsFrom(_)
PdfPairsFrom(p) ==
    IF p > Len(t_pdf[1]) THEN <<>> ELSE FontRuns(t_pdf[1][p]) \o PdfPairsFrom(p + 1)

\* C10: under one text and settings snapshot the (bold, normal) pairs of the
\* word tokens of the whole text (preview) are, in order, the pairs of the
\* word tokens of the paragraphs of the text split on "\n\n" (PDF).
C10_PreviewAndPdfAgreeOnWords ==
    (t_preview # None /\ t_pdf # None) => PreviewPairsFrom(1) = PdfPairsFrom(1)

\* both passes ran on a text of two paragraphs that each hold a word
C10_Witness ==
    /\ t_preview # None
    /\ t_pdf # None
    /\ Len(t_paragraphs[1]) = 2
    /\ ~IsBlank(t_paragraphs[1][1])
    /\ ~IsBlank(t_paragraphs[1][2])
    /\ Len(PdfPairsFrom(1)) = 2

ExpectedStyle ==
    [font_family |-> t_settings.current_font, font_size |-> t_settings.text_size,
     line_height |-> t_settings.line_spacing, letter_spacing |-> t_settings.char_spacing,
     color |-> t_settings.text_color]

WordsAreSpans ==
    \A i \in WordIndices :
        t_markup[1][i] = [tag |-> "span", style |-> ExpectedStyle,
                          b |-> process_word_app(t_words[1][i])[1],
                          rest |-> process_word_app(t_words[1][i])[2]]

\* C5 as stated, on the non-blank texts the preview is generated for:
\* whitespace tokens are emitted verbatim with no span or bold wrapper, word
\* tokens as one styled span of <b>bold</b> and the normal part.
C5_WhitespaceUnstyled ==
    (t_markup # None /\ ~IsBlank(t_text)) =>
        /\ Len(t_markup[1]) = Len(t_words[1])
        /\ WordsAreSpans
        /\ \A i \in SpaceIndices : t_markup[1][i].tag = "text"

\* C5 amended: every token, in order, is emitted as one styled span (font
\* family, size, line height, letter spacing, colour from settings); for a
\* word it wraps <b>bold</b> and the normal part of process_word_app, for a
\* whitespace token it wraps an empty <b></b> and the raw whitespace.
C5_EveryTokenIsSpan ==
    t_markup # None =>
        /\ Len(t_markup[1]) = Len(t_words[1])
        /\ WordsAreSpans
        /\ \A i \in SpaceIndices :
              t_markup[1][i] = [tag |-> "span", style |-> ExpectedStyle,
                                b |-> <<>>, rest |-> t_words[1][i]]

\* a rendered preview with a whitespace token between two words, under a
\* theme other than the default
C5_Witness ==
    /\ t_markup # None
    /\ Len(t_markup[1]) = 3
    /\ 2 \in SpaceIndices
    /\ t_markup[1][2].rest = t_words[1][2]
    /\ t_settings.text_color # DefaultSettings.text_color

----------------------------------------------------------------------------
\* Properties of the script

ConversionSucceeded == uploaded # None /\ pdf_call.called /\ pdf_call.exc = "none"

\* C2: the download button is rendered enabled with PDF bytes only when the
\* conversion of the currently uploaded document has succeeded, and it is
\* rendered disabled with empty data when that conversion failed or there is
\* no file.
C2_DownloadOnlyAfterSuccess ==
    /\ (~button.disabled /\ button.data # None) => ConversionSucceeded
    /\ ~ConversionSucceeded => (button.disabled /\ button.data = None)

ExtractionFailedOrBlank ==
    /\ uploaded # None
    /\ \/ uploaded[1].type \notin {MIME_DOCX, MIME_PDF}
       \/ ~uploaded[1].readable
       \/ IsBlank(JoinParagraphs(uploaded[1].blocks))

\* C3: when extraction fails or the extracted text is blank the run renders
\* nothing (no preview, no create_pdf_document call), pdf_bytes is None, and
\* an error message is set and displayed.
C3_ExtractErrorAborts ==
    ExtractionFailedOrBlank =>
        /\ preview = None
        /\ ~pdf_call.called
        /\ pdf_bytes = None
        /\ error_message \in {ErrUnsupported, ErrReading, ErrNoText}
        /\ error_shown = error_message

\* a blank document replaced a converted one: the run before held a PDF
C3_Witness ==
    /\ ExtractionFailedOrBlank
    /\ uploaded[1].readable
    /\ uploaded[1].type = MIME_DOCX
    /\ ~button.disabled
    /\ pdf_bytes = None
    /\ error_shown = ErrNoText

\* C4: every failure of create_pdf_document reaches the caller as the
\* RuntimeError "Failed to generate PDF: <cause>", with no PDF bytes.
C4_FailureIsRenderError ==
    (pdf_call.called /\ pdf_call.exc # "none") =>
        /\ pdf_call.exc = "RuntimeError"
        /\ error_message = ErrRender
        /\ pdf_bytes = None

\* C6: after a failed font registration (the warning) the renderer refers to
\* registered fonts only, and a valid document the library does not
\* otherwise reject is converted to PDF bytes.
C6_FontFallbackStillConverts ==
    (warning_shown /\ pdf_call.called /\ pdf_call.fault = "none") =>
        /\ pdf_call.fonts \subseteq registered
        /\ pdf_bytes # None

====
